---- MODULE Spec2Model ----
(***************************************************************************)
(* A model of jicgeometry (src/jicgeometry/__init__.py): the classes       *)
(* Point2D and Point3D, their constructors and every method.               *)
(*                                                                         *)
(* A caller holds two references, p and q.  Each library call is one       *)
(* action: it reads the receiver and its argument, may leave a new object  *)
(* or an exception in `call.out`, and returns the receiver and argument as *)
(* the method left them.  Python values are records that keep their type   *)
(* (int, bool, float, str, NoneType, tuple); floats are exact rationals    *)
(* n/d in lowest terms, so binary64 rounding is not modelled: arithmetic   *)
(* on the halves and small integers used here is exact in binary64 too,    *)
(* except for 1/float(s) and math.sqrt, whose results are the exact        *)
(* rational and a rational on a fixed grid.  round() and int() follow      *)
(* Python 3.                                                               *)
(***************************************************************************)
EXTENDS Integers, Sequences, FiniteSets, TLC

VARIABLES
    obj,    \* obj[r]: the object reference r is bound to, or NoObj
    born,   \* born[r]: the fields of obj[r] when its constructor returned
    call    \* the latest call: operation, operands, arguments and outcome

vars == <<obj, born, call>>

(***************************************************************************)
(* Bounds of the model.                                                    *)
(***************************************************************************)
\* integer coordinates handed to the constructors are 0 .. MaxCoord
MaxCoord == 1
\* integer scalars of * and / are -MaxScalar .. MaxScalar
MaxScalar == 1
\* indices handed to __getitem__ are -1 .. MaxIndex
MaxIndex == 3
\* math.sqrt of a non-square is rounded down to a multiple of 1/SqrtScale
SqrtScale == 10

(***************************************************************************)
(* Python values.                                                          *)
(***************************************************************************)
Abs(k) == IF k < 0 THEN -k ELSE k

RECURSIVE Gcd(_, _)
Gcd(a, b) == IF b = 0 THEN a ELSE Gcd(b, a % b)

\* a value of type t; n/d is its number (d > 0), n the length of a str
V(t, n, d) == [t |-> t, n |-> n, d |-> d, items |-> <<>>]

IntV(k) == V("int", k, 1)

FloatV(n, d) ==
    LET g == Gcd(Abs(n), d)
    IN  V("float", n \div g, d \div g)

TrueV == V("bool", 1, 1)
NoneV == V("NoneType", 0, 1)
\* the string "1"
StrV == V("str", 1, 1)
Tuple(s) == [t |-> "tuple", n |-> Len(s), d |-> 1, items |-> s]
\* the attribute z of a Point2D: there is none
NoAttr == V("absent", 0, 1)

\* a raised exception, carried through the expression that raised it
Exc(name) == V(name, 0, 1)
ExcNames ==
    {"TypeError", "ValueError", "RuntimeError", "AttributeError",
     "ZeroDivisionError", "IndexError"}
IsExc(v) == v.t \in ExcNames

\* isinstance(c, int): bool is a subclass of int
IsInstanceInt(c) == c.t \in {"int", "bool"}
IsInstanceFloat(c) == c.t = "float"
IsNumber(c) == IsInstanceInt(c) \/ IsInstanceFloat(c)

\* the first exception among the operands, evaluated left to right
RECURSIVE FirstExc(_)
FirstExc(s) ==
    IF s = <<>> THEN NoneV
    ELSE IF IsExc(Head(s)) THEN Head(s)
    ELSE FirstExc(Tail(s))

\* float(c)
PyFloat(c) ==
    IF IsExc(c) THEN c
    ELSE IF IsNumber(c) THEN FloatV(c.n, c.d)
    ELSE Exc("TypeError")

\* a + b, a - b, a * b on numbers: int when both are int, float otherwise
PyAdd(a, b) ==
    IF FirstExc(<<a, b>>) # NoneV THEN FirstExc(<<a, b>>)
    ELSE IF ~(IsNumber(a) /\ IsNumber(b)) THEN Exc("TypeError")
    ELSE IF IsInstanceInt(a) /\ IsInstanceInt(b) THEN IntV(a.n + b.n)
    ELSE FloatV(a.n * b.d + b.n * a.d, a.d * b.d)

PySub(a, b) ==
    IF FirstExc(<<a, b>>) # NoneV THEN FirstExc(<<a, b>>)
    ELSE IF ~(IsNumber(a) /\ IsNumber(b)) THEN Exc("TypeError")
    ELSE IF IsInstanceInt(a) /\ IsInstanceInt(b) THEN IntV(a.n - b.n)
    ELSE FloatV(a.n * b.d - b.n * a.d, a.d * b.d)

PyMul(a, b) ==
    IF FirstExc(<<a, b>>) # NoneV THEN FirstExc(<<a, b>>)
    ELSE IF ~(IsNumber(a) /\ IsNumber(b)) THEN Exc("TypeError")
    ELSE IF IsInstanceInt(a) /\ IsInstanceInt(b) THEN IntV(a.n * b.n)
    ELSE FloatV(a.n * b.n, a.d * b.d)

\* a / b, true division: always a float, ZeroDivisionError when b is zero
PyTrueDiv(a, b) ==
    IF FirstExc(<<a, b>>) # NoneV THEN FirstExc(<<a, b>>)
    ELSE IF ~(IsNumber(a) /\ IsNumber(b)) THEN Exc("TypeError")
    ELSE IF b.n = 0 THEN Exc("ZeroDivisionError")
    ELSE IF b.n > 0 THEN FloatV(a.n * b.d, a.d * b.n)
    ELSE FloatV(-(a.n * b.d), a.d * (-b.n))

\* a == b on numbers compares the numbers, whatever their types
PyEq(a, b) == a.n * b.d = b.n * a.d

\* the integer nearest to n/d, an exact half going to the even neighbour
RoundHalfEven(n, d) ==
    LET q == n \div d
        r == n - q * d
    IN  IF 2 * r < d THEN q
        ELSE IF 2 * r > d THEN q + 1
        ELSE IF q % 2 = 0 THEN q ELSE q + 1

\* round(c, 0) of Python 2: an exact half goes away from zero
PyRound0_half_away(c) ==
    IF IsInstanceInt(c) THEN IntV(c.n)
    ELSE IF IsInstanceFloat(c)
    THEN LET q == c.n \div c.d
             r == c.n - q * c.d
         IN  FloatV(IF 2 * r < c.d THEN q
                    ELSE IF 2 * r > c.d THEN q + 1
                    ELSE IF q >= 0 THEN q + 1 ELSE q, 1)
    ELSE Exc("TypeError")

\* round(c, 0): an int stays an int (a bool becomes one), a float is
\* rounded half to even and stays a float
PyRound0(c) ==
    IF IsInstanceInt(c) THEN IntV(c.n)
    ELSE IF IsInstanceFloat(c) THEN FloatV(RoundHalfEven(c.n, c.d), 1)
    ELSE Exc("TypeError")

\* int(c): truncation towards zero
PyInt(c) ==
    IF IsExc(c) THEN c
    ELSE IF ~IsNumber(c) THEN Exc("TypeError")
    ELSE IF c.n >= 0 THEN IntV(c.n \div c.d)
    ELSE IntV(-((-c.n) \div c.d))

\* the largest k with k * k <= m, by bisection of lo .. hi
RECURSIVE ISqrtIn(_, _, _)
ISqrtIn(m, lo, hi) ==
    IF lo >= hi THEN lo
    ELSE LET mid == (lo + hi + 1) \div 2
         IN  IF mid * mid <= m THEN ISqrtIn(m, mid, hi) ELSE ISqrtIn(m, lo, mid - 1)
\* 46340 is the largest k whose square is a 32-bit integer
ISqrt(m) == ISqrtIn(m, 0, IF m < 46340 THEN m ELSE 46340)

IsSquare(m) == LET k == ISqrt(m) IN k * k = m

\* math.sqrt(c) for c >= 0: a float; exact for a square of a rational,
\* otherwise rounded down to a multiple of 1/SqrtScale
PySqrt(c) ==
    IF IsExc(c) THEN c
    ELSE IF ~IsNumber(c) THEN Exc("TypeError")
    ELSE IF IsSquare(c.n) /\ IsSquare(c.d) THEN FloatV(ISqrt(c.n), ISqrt(c.d))
    ELSE FloatV(ISqrt((c.n * SqrtScale * SqrtScale) \div c.d), SqrtScale)

(***************************************************************************)
(* Objects and outcomes.                                                   *)
(***************************************************************************)
NoObj == [cls |-> "None", x |-> NoAttr, y |-> NoAttr, z |-> NoAttr, dtype |-> ""]

\* a fresh instance with its attributes assigned and _set_types not yet run
Raw(cls, x, y, z) == [cls |-> cls, x |-> x, y |-> y, z |-> z, dtype |-> ""]

\* other.z: a Point2D has no attribute z
GetZ(o) == IF o.z.t = "absent" THEN Exc("AttributeError") ELSE o.z

Out(kind, o, v, items, text) ==
    [kind |-> kind, obj |-> o, val |-> v, items |-> items, text |-> text]
OutNone == Out("none", NoObj, NoneV, <<>>, "")
\* a new instance
OutPoint(o) == Out("Point", o, NoneV, <<>>, "")
OutVal(v) == Out("value", NoObj, v, <<>>, "")
OutBool(b) == Out("bool", NoObj, V("bool", IF b THEN 1 ELSE 0, 1), <<>>, "")
OutList(s) == Out("list", NoObj, NoneV, s, "")
OutTuple(s) == Out("tuple", NoObj, NoneV, s, "")
OutStr(label, s, dtype) == Out("str", NoObj, V("str", 0, 1), s, label \o ":" \o dtype)
Raise(name) == Out("raise", NoObj, NoneV, <<>>, name)

\* what a method leaves: its receiver, its argument, and what it returns
Ret(self, other, out) == [self |-> self, other |-> other, out |-> out]

\* x, y = a1: a tuple or a str of k items unpacks, another length is a
\* ValueError, a value that is no sequence a TypeError
Unpack(a1, k) ==
    IF a1.t = "tuple"
    THEN IF a1.n = k THEN [err |-> "", items |-> a1.items]
         ELSE [err |-> "ValueError", items |-> <<>>]
    ELSE IF a1.t = "str"
    THEN IF a1.n = k THEN [err |-> "", items |-> [i \in 1..k |-> StrV]]
         ELSE [err |-> "ValueError", items |-> <<>>]
    ELSE [err |-> "TypeError", items |-> <<>>]

\* what an expression returns: its value, or the exception it raised
Result(v) == IF IsExc(v) THEN Raise(v.t) ELSE OutVal(v)

\* c ** 2
PyPow2(c) == PyMul(c, c)

\* "{}".format(c): the text of c, which keeps its type
FormatStr(c) == IF IsExc(c) THEN c ELSE V("text:" \o c.t, c.n, c.d)

\* "{:.2f}".format(c): c to two decimals, in hundredths, half to even
Format2f(c) ==
    IF IsExc(c) THEN c
    ELSE IF IsNumber(c) THEN V("text:.2f", RoundHalfEven(c.n * 100, c.d), 100)
    ELSE Exc("TypeError")

(***************************************************************************)
(* Point2D.                                                                *)
(***************************************************************************)
\* a slip: dtype decided by x alone
Point2D_set_types_x_only(self) ==
    IF \E c \in {self.x, self.y} : ~(IsInstanceInt(c) \/ IsInstanceFloat(c))
    THEN [err |-> "RuntimeError", self |-> self]
    ELSE IF IsInstanceInt(self.x)
    THEN [err |-> "", self |-> [self EXCEPT !.dtype = "int"]]
    ELSE [err |-> "",
          self |-> [self EXCEPT !.x = PyFloat(self.x), !.y = PyFloat(self.y),
                                !.dtype = "float"]]

Point2D_set_types(self) ==
    IF \E c \in {self.x, self.y} : ~(IsInstanceInt(c) \/ IsInstanceFloat(c))
    THEN [err |-> "RuntimeError", self |-> self]
    ELSE IF IsInstanceInt(self.x) /\ IsInstanceInt(self.y)
    THEN [err |-> "", self |-> [self EXCEPT !.dtype = "int"]]
    ELSE [err |-> "",
          self |-> [self EXCEPT !.x = PyFloat(self.x), !.y = PyFloat(self.y),
                                !.dtype = "float"]]

Point2D_init(a1, a2) ==
    LET u == Unpack(a1, 2)
        raw == IF a2 = NoneV
               THEN IF u.err = "" THEN Raw("Point2D", u.items[1], u.items[2], NoAttr)
                    ELSE NoObj
               ELSE Raw("Point2D", a1, a2, NoAttr)
        st == Point2D_set_types(raw)
    IN  IF a2 = NoneV /\ u.err # "" THEN Raise(u.err)
        ELSE IF st.err # "" THEN Raise(st.err)
        ELSE OutPoint(st.self)

\* the expression Point2D(a1, a2): an exception raised while its arguments
\* are evaluated leaves the constructor uncalled
Point2D(a1, a2) ==
    IF FirstExc(<<a1, a2>>) # NoneV THEN Raise(FirstExc(<<a1, a2>>).t)
    ELSE Point2D_init(a1, a2)

\* the property magnitude, as the value it returns
Point2D_magnitude(self) == PySqrt(PyAdd(PyPow2(self.x), PyPow2(self.y)))

\* self.magnitude is evaluated once for each component, to the same value
Point2D_unit_vector(self) ==
    LET m == Point2D_magnitude(self)
    IN  Ret(self, NoObj, Point2D(PyTrueDiv(self.x, m), PyTrueDiv(self.y, m)))

Point2D_repr(self) ==
    LET s == IF self.dtype = "float"
             THEN <<Format2f(self.x), Format2f(self.y)>>
             ELSE <<FormatStr(self.x), FormatStr(self.y)>>
    IN  Ret(self, NoObj,
            IF FirstExc(s) # NoneV THEN Raise(FirstExc(s).t)
            ELSE OutStr("Point2D", s, self.dtype))

Point2D_eq(self, other) ==
    Ret(self, other,
        IF self.dtype # other.dtype THEN OutBool(FALSE)
        ELSE OutBool(PyEq(self.x, other.x) /\ PyEq(self.y, other.y)))

Point2D_add(self, other) ==
    Ret(self, other, Point2D(PyAdd(self.x, other.x), PyAdd(self.y, other.y)))

\* a slip: the y components added
Point2D_sub_sign_slip(self, other) ==
    Ret(self, other, Point2D(PySub(self.x, other.x), PyAdd(self.y, other.y)))

Point2D_sub(self, other) ==
    Ret(self, other, Point2D(PySub(self.x, other.x), PySub(self.y, other.y)))

\* tmp = self - other; tmp.magnitude, tmp being what self - other returns
Point2D_distance(self, other) ==
    LET tmp == Point2D_sub(self, other).out
    IN  Ret(self, other,
            IF tmp.kind = "raise" THEN tmp
            ELSE Result(Point2D_magnitude(tmp.obj)))

\* a slip: self.x *= other; self.y *= other; return self
Point2D_mul_in_place(self, other) ==
    LET new == Point2D(PyMul(self.x, other), PyMul(self.y, other))
    IN  IF new.kind = "Point"
        THEN Ret(new.obj, NoObj, Out("self", new.obj, NoneV, <<>>, ""))
        ELSE Ret(self, NoObj, new)

Point2D_mul(self, other) ==
    Ret(self, NoObj, Point2D(PyMul(self.x, other), PyMul(self.y, other)))

\* the // of a slip: floor division of each component
Point2D_div_floor(self, other) ==
    LET fl(c) == IF other.n = 0 THEN Exc("ZeroDivisionError")
                 ELSE IF IsInstanceInt(c) /\ IsInstanceInt(other)
                 THEN IntV((c.n * (IF other.n < 0 THEN -1 ELSE 1)) \div Abs(other.n))
                 ELSE FloatV((c.n * other.d * (IF other.n < 0 THEN -1 ELSE 1))
                                \div (c.d * Abs(other.n)), 1)
    IN  Ret(self, NoObj, Point2D(fl(self.x), fl(self.y)))

\* self * (1/float(other))
Point2D_div(self, other) ==
    Point2D_mul(self, PyTrueDiv(IntV(1), PyFloat(other)))

Point2D_truediv(self, other) == Point2D_div(self, other)

Point2D_len(self) == Ret(self, NoObj, OutVal(IntV(2)))

\* a slip: negative keys counted from the end, as a list does
Point2D_getitem_from_end(self, key) ==
    Ret(self, NoObj,
        IF PyEq(key, IntV(0)) \/ PyEq(key, IntV(-2)) THEN OutVal(self.x)
        ELSE IF PyEq(key, IntV(1)) \/ PyEq(key, IntV(-1)) THEN OutVal(self.y)
        ELSE Raise("IndexError"))

Point2D_getitem(self, key) ==
    Ret(self, NoObj,
        IF PyEq(key, IntV(0)) THEN OutVal(self.x)
        ELSE IF PyEq(key, IntV(1)) THEN OutVal(self.y)
        ELSE Raise("IndexError"))

Point2D_iter(self) == Ret(self, NoObj, OutList(<<self.x, self.y>>))

Point2D_astype(self, dtype) ==
    Ret(self, NoObj,
        IF dtype = "int"
        THEN Point2D(PyInt(PyRound0(self.x)), PyInt(PyRound0(self.y)))
        ELSE IF dtype = "float"
        THEN Point2D(PyFloat(self.x), PyFloat(self.y))
        ELSE Raise("RuntimeError"))

Point2D_astuple(self) == Ret(self, NoObj, OutTuple(<<self.x, self.y>>))

(***************************************************************************)
(* Point3D.                                                                *)
(***************************************************************************)
Point3D_set_types(self) ==
    IF \E c \in {self.x, self.y, self.z} : ~(IsInstanceInt(c) \/ IsInstanceFloat(c))
    THEN [err |-> "RuntimeError", self |-> self]
    ELSE IF IsInstanceInt(self.x) /\ IsInstanceInt(self.y) /\ IsInstanceInt(self.z)
    THEN [err |-> "", self |-> [self EXCEPT !.dtype = "int"]]
    ELSE [err |-> "",
          self |-> [self EXCEPT !.x = PyFloat(self.x), !.y = PyFloat(self.y),
                                !.z = PyFloat(self.z), !.dtype = "float"]]

\* a slip: `if a2 is not None:` alone chooses the separate-argument form
Point3D_init_no_a3_check(a1, a2, a3) ==
    LET u == Unpack(a1, 3)
        seq == a2 = NoneV
        raw == IF seq
               THEN IF u.err = ""
                    THEN Raw("Point3D", u.items[1], u.items[2], u.items[3])
                    ELSE NoObj
               ELSE Raw("Point3D", a1, a2, a3)
        st == Point3D_set_types(raw)
    IN  IF seq /\ u.err # "" THEN Raise(u.err)
        ELSE IF st.err # "" THEN Raise(st.err)
        ELSE OutPoint(st.self)

Point3D_init(a1, a2, a3) ==
    LET u == Unpack(a1, 3)
        seq == ~(a2 # NoneV /\ a3 # NoneV)
        raw == IF seq
               THEN IF u.err = ""
                    THEN Raw("Point3D", u.items[1], u.items[2], u.items[3])
                    ELSE NoObj
               ELSE Raw("Point3D", a1, a2, a3)
        st == Point3D_set_types(raw)
    IN  IF seq /\ u.err # "" THEN Raise(u.err)
        ELSE IF st.err # "" THEN Raise(st.err)
        ELSE OutPoint(st.self)

Point3D(a1, a2, a3) ==
    IF FirstExc(<<a1, a2, a3>>) # NoneV THEN Raise(FirstExc(<<a1, a2, a3>>).t)
    ELSE Point3D_init(a1, a2, a3)

Point3D_iter(self) == Ret(self, NoObj, OutList(<<self.x, self.y, self.z>>))

\* the float form of __repr__ is labelled Point2D in the source
Point3D_repr(self) ==
    LET s == IF self.dtype = "float"
             THEN <<Format2f(self.x), Format2f(self.y), Format2f(self.z)>>
             ELSE <<FormatStr(self.x), FormatStr(self.y), FormatStr(self.z)>>
    IN  Ret(self, NoObj,
            IF FirstExc(s) # NoneV THEN Raise(FirstExc(s).t)
            ELSE OutStr(IF self.dtype = "float" THEN "Point2D" ELSE "Point3D",
                        s, self.dtype))

\* `and` stops at the first component that differs, before other.z is read
Point3D_eq(self, other) ==
    Ret(self, other,
        IF self.dtype # other.dtype THEN OutBool(FALSE)
        ELSE IF ~PyEq(self.x, other.x) THEN OutBool(FALSE)
        ELSE IF ~PyEq(self.y, other.y) THEN OutBool(FALSE)
        ELSE IF IsExc(GetZ(other)) THEN Raise(GetZ(other).t)
        ELSE OutBool(PyEq(self.z, other.z)))

Point3D_add(self, other) ==
    Ret(self, other,
        Point3D(PyAdd(self.x, other.x), PyAdd(self.y, other.y),
                PyAdd(self.z, GetZ(other))))

Point3D_sub(self, other) ==
    Ret(self, other,
        Point3D(PySub(self.x, other.x), PySub(self.y, other.y),
                PySub(self.z, GetZ(other))))

Point3D_mul(self, other) ==
    Ret(self, NoObj,
        Point3D(PyMul(self.x, other), PyMul(self.y, other), PyMul(self.z, other)))

Point3D_div(self, other) ==
    Point3D_mul(self, PyTrueDiv(IntV(1), PyFloat(other)))

Point3D_truediv(self, other) == Point3D_div(self, other)

Point3D_len(self) == Ret(self, NoObj, OutVal(IntV(3)))

Point3D_getitem(self, key) ==
    Ret(self, NoObj,
        IF PyEq(key, IntV(0)) THEN OutVal(self.x)
        ELSE IF PyEq(key, IntV(1)) THEN OutVal(self.y)
        ELSE IF PyEq(key, IntV(2)) THEN OutVal(self.z)
        ELSE Raise("IndexError"))

Point3D_magnitude(self) ==
    PySqrt(PyAdd(PyAdd(PyPow2(self.x), PyPow2(self.y)), PyPow2(self.z)))

Point3D_unit_vector(self) ==
    LET m == Point3D_magnitude(self)
    IN  Ret(self, NoObj,
            Point3D(PyTrueDiv(self.x, m), PyTrueDiv(self.y, m), PyTrueDiv(self.z, m)))

Point3D_distance(self, other) ==
    LET tmp == Point3D_sub(self, other).out
    IN  Ret(self, other,
            IF tmp.kind = "raise" THEN tmp
            ELSE Result(Point3D_magnitude(tmp.obj)))

Point3D_astype(self, dtype) ==
    Ret(self, NoObj,
        IF dtype = "int"
        THEN Point3D(PyInt(PyRound0(self.x)), PyInt(PyRound0(self.y)),
                     PyInt(PyRound0(self.z)))
        ELSE IF dtype = "float"
        THEN Point3D(PyFloat(self.x), PyFloat(self.y), PyFloat(self.z))
        ELSE Raise("RuntimeError"))

Point3D_astuple(self) == Ret(self, NoObj, OutTuple(<<self.x, self.y, self.z>>))

(***************************************************************************)
(* A call is bound to the method of its receiver's class.                  *)
(***************************************************************************)
Is2D(o) == o.cls = "Point2D"
M_magnitude(self) ==
    Ret(self, NoObj,
        Result(IF Is2D(self) THEN Point2D_magnitude(self) ELSE Point3D_magnitude(self)))
M_unit_vector(self) ==
    IF Is2D(self) THEN Point2D_unit_vector(self) ELSE Point3D_unit_vector(self)
M_distance(self, other) ==
    IF Is2D(self) THEN Point2D_distance(self, other) ELSE Point3D_distance(self, other)
M_repr(self) == IF Is2D(self) THEN Point2D_repr(self) ELSE Point3D_repr(self)
M_eq(self, other) ==
    IF Is2D(self) THEN Point2D_eq(self, other) ELSE Point3D_eq(self, other)
M_add(self, other) ==
    IF Is2D(self) THEN Point2D_add(self, other) ELSE Point3D_add(self, other)
M_sub(self, other) ==
    IF Is2D(self) THEN Point2D_sub(self, other) ELSE Point3D_sub(self, other)
M_mul(self, other) ==
    IF Is2D(self) THEN Point2D_mul(self, other) ELSE Point3D_mul(self, other)
M_truediv(self, other) ==
    IF Is2D(self) THEN Point2D_truediv(self, other) ELSE Point3D_truediv(self, other)
M_len(self) == IF Is2D(self) THEN Point2D_len(self) ELSE Point3D_len(self)
M_getitem(self, key) ==
    IF Is2D(self) THEN Point2D_getitem(self, key) ELSE Point3D_getitem(self, key)
M_iter(self) == IF Is2D(self) THEN Point2D_iter(self) ELSE Point3D_iter(self)
M_astype(self, dtype) ==
    IF Is2D(self) THEN Point2D_astype(self, dtype) ELSE Point3D_astype(self, dtype)
M_astuple(self) == IF Is2D(self) THEN Point2D_astuple(self) ELSE Point3D_astuple(self)

(***************************************************************************)
(* The caller.                                                             *)
(***************************************************************************)
Refs == {"p", "q"}

IntCoords == {IntV(k) : k \in 0..MaxCoord}
FloatCoords == {FloatV(1, 2)}
\* what q is constructed from: numbers
NumCoords == IntCoords \cup FloatCoords
\* what p is constructed from: numbers, a bool, a str, None
Coords == NumCoords \cup {TrueV, StrV, NoneV}
\* the sequences handed to the sequence form of a class of k components:
\* every sequence of k items of S, and sequences of integers one item
\* too short or too long
Tuples2(S) ==
    {Tuple(<<a, b>>) : a \in S, b \in S}
        \cup {Tuple(<<a>>) : a \in IntCoords}
        \cup {Tuple(<<a, a, a>>) : a \in IntCoords}
Tuples3(S) ==
    {Tuple(<<a[1], a[2], c>>) : a \in S \X S, c \in S}
        \cup {Tuple(<<a, a>>) : a \in IntCoords}
        \cup {Tuple(<<a, a, a, a>>) : a \in IntCoords}
CoordTuples2 == Tuples2(Coords) \cup {StrV}
CoordTuples3 == Tuples3(Coords) \cup {StrV}
NumTuples2 == {Tuple(<<a, b>>) : a \in NumCoords, b \in NumCoords}
NumTuples3 == {Tuple(<<a[1], a[2], c>>) : a \in NumCoords \X NumCoords, c \in NumCoords}
\* a component of the separate-argument form may be left out: it is None
CoordsOrNone == Coords \cup {NoneV}

Call(op, a, b, args, name, out) ==
    [op |-> op, a |-> a, b |-> b, args |-> args, name |-> name, out |-> out]

Init ==
    /\ obj = [r \in Refs |-> NoObj]
    /\ born = [r \in Refs |-> NoObj]
    /\ call = Call("none", "-", "-", <<>>, "", OutNone)

\* An exception is not caught: it ends the caller's run.
Running == call.out.kind # "raise"

\* r = Point2D(a1, a2) or r = Point3D(a1, a2, a3); a2, a3 = None when left
\* out.  p is bound first, and q right after it: a constructor reads no
\* object, so binding q later shows nothing more.
New(r, cls, a1, a2, a3) ==
    /\ Running
    /\ obj[r] = NoObj
    /\ r = "q" => obj["p"] # NoObj /\ call.op = "new"
    /\ LET out == IF cls = "Point2D" THEN Point2D(a1, a2) ELSE Point3D(a1, a2, a3)
           args == IF cls = "Point2D" THEN <<a1, a2>> ELSE <<a1, a2, a3>>
       IN  /\ call' = Call("new", r, "-", args, cls, out)
           /\ obj' = IF out.kind = "Point" THEN [obj EXCEPT ![r] = out.obj] ELSE obj
           /\ born' = IF out.kind = "Point" THEN [born EXCEPT ![r] = out.obj] ELSE born

\* p = Point2D(a1, a2), p = Point3D(a1, a2, a3): the separate-argument
\* form, a component possibly left out, not a number or None
NewArgsP ==
    \/ \E a1 \in Coords, a2 \in CoordsOrNone :
        New("p", "Point2D", a1, a2, NoneV)
    \/ \E a1 \in Coords, a2 \in CoordsOrNone, a3 \in CoordsOrNone :
        New("p", "Point3D", a1, a2, a3)

\* p = Point2D(seq), p = Point3D(seq): the sequence form
NewSeqP ==
    \/ \E a1 \in CoordTuples2 : New("p", "Point2D", a1, NoneV, NoneV)
    \/ \E a1 \in CoordTuples3 : New("p", "Point3D", a1, NoneV, NoneV)

\* q, the second operand, is constructed from numbers, in either form
NewArgsQ ==
    \/ \E a1 \in NumCoords, a2 \in NumCoords :
        New("q", "Point2D", a1, a2, NoneV)
    \/ \E a1 \in NumCoords, a2 \in NumCoords, a3 \in NumCoords :
        New("q", "Point3D", a1, a2, a3)

NewSeqQ ==
    \/ \E a1 \in NumTuples2 : New("q", "Point2D", a1, NoneV, NoneV)
    \/ \E a1 \in NumTuples3 : New("q", "Point3D", a1, NoneV, NoneV)

\* the scalars of * and /, the keys of [], the names given to astype
Scalars == {IntV(k) : k \in -MaxScalar..MaxScalar} \cup FloatCoords
Indices == {IntV(k) : k \in -1..MaxIndex}
DtypeNames == {"int", "float", "double"}
\* the operands of a binary call: p with q, and p with itself
Pairs == {<<"p", "q">>, <<"p", "p">>}

\* a method call on obj[a] (with obj[b]) has returned r
Invoke(op, a, b, args, name, r) ==
    /\ obj' = [x \in Refs |->
                 IF x = a THEN r.self ELSE IF x = b THEN r.other ELSE obj[x]]
    /\ call' = Call(op, a, b, args, name, r.out)
    /\ UNCHANGED born

Bound(r) == Running /\ obj[r] # NoObj

\* The caller makes its calls on p alone while q is unbound: such a call
\* reads and writes nothing of q, so repeating it beside every q shows
\* nothing more.
Alone == Bound("p") /\ obj["q"] = NoObj

Add ==
    \E ab \in Pairs :
        /\ Bound(ab[1]) /\ Bound(ab[2])
        /\ Invoke("add", ab[1], ab[2], <<>>, "", M_add(obj[ab[1]], obj[ab[2]]))

Sub ==
    \E ab \in Pairs :
        /\ Bound(ab[1]) /\ Bound(ab[2])
        /\ Invoke("sub", ab[1], ab[2], <<>>, "", M_sub(obj[ab[1]], obj[ab[2]]))

Eq ==
    \E ab \in Pairs :
        /\ Bound(ab[1]) /\ Bound(ab[2])
        /\ Invoke("eq", ab[1], ab[2], <<>>, "", M_eq(obj[ab[1]], obj[ab[2]]))

Distance ==
    \E ab \in Pairs :
        /\ Bound(ab[1]) /\ Bound(ab[2])
        /\ Invoke("distance", ab[1], ab[2], <<>>, "",
                  M_distance(obj[ab[1]], obj[ab[2]]))

Mul ==
    \E s \in Scalars :
        /\ Alone
        /\ Invoke("mul", "p", "-", <<s>>, "", M_mul(obj["p"], s))

Div ==
    \E s \in Scalars :
        /\ Alone
        /\ Invoke("div", "p", "-", <<s>>, "", M_truediv(obj["p"], s))

Magnitude ==
    /\ Alone
    /\ Invoke("magnitude", "p", "-", <<>>, "", M_magnitude(obj["p"]))

UnitVector ==
    /\ Alone
    /\ Invoke("unit_vector", "p", "-", <<>>, "", M_unit_vector(obj["p"]))

Repr ==
    /\ Alone
    /\ Invoke("repr", "p", "-", <<>>, "", M_repr(obj["p"]))

LenOf ==
    /\ Alone
    /\ Invoke("len", "p", "-", <<>>, "", M_len(obj["p"]))

GetItem ==
    \E k \in Indices :
        /\ Alone
        /\ Invoke("getitem", "p", "-", <<k>>, "", M_getitem(obj["p"], k))

Iter ==
    /\ Alone
    /\ Invoke("iter", "p", "-", <<>>, "", M_iter(obj["p"]))

AsType ==
    \E d \in DtypeNames :
        /\ Alone
        /\ Invoke("astype", "p", "-", <<>>, d, M_astype(obj["p"], d))

AsTuple ==
    /\ Alone
    /\ Invoke("astuple", "p", "-", <<>>, "", M_astuple(obj["p"]))

\* q = <the point the latest call returned>: the caller keeps a result as
\* the second operand
Keep ==
    /\ obj["q"] = NoObj
    /\ call.op # "new"
    /\ call.out.kind = "Point"
    /\ obj' = [obj EXCEPT !["q"] = call.out.obj]
    /\ born' = [born EXCEPT !["q"] = call.out.obj]
    /\ UNCHANGED call

(***************************************************************************)
(* The caller reads and assigns attributes.  x, y and z are instance       *)
(* attributes, assigned in __init__; dtype is a property with no setter.   *)
(***************************************************************************)
AttrNames == {"x", "y", "z", "dtype"}

\* self.<name>
GetAttrOf(self, name) ==
    Ret(self, NoObj,
        IF name = "x" THEN OutVal(self.x)
        ELSE IF name = "y" THEN OutVal(self.y)
        ELSE IF name = "z" THEN Result(GetZ(self))
        ELSE Out("dtype", NoObj, NoneV, <<>>, self.dtype))

\* self.<name> = v
SetAttrOf(self, name, v) ==
    IF name = "x" THEN Ret([self EXCEPT !.x = v], NoObj, OutNone)
    ELSE IF name = "y" THEN Ret([self EXCEPT !.y = v], NoObj, OutNone)
    ELSE IF name = "z" THEN Ret([self EXCEPT !.z = v], NoObj, OutNone)
    ELSE Ret(self, NoObj, Raise("AttributeError"))

\* what the caller assigns: a float and a str
Assigned == FloatCoords \cup {StrV}

GetAttr ==
    \E name \in AttrNames :
        /\ Alone
        /\ Invoke("getattr", "p", "-", <<>>, name, GetAttrOf(obj["p"], name))

SetAttr ==
    \E name \in AttrNames, v \in Assigned :
        /\ Alone
        /\ Invoke("setattr", "p", "-", <<v>>, name, SetAttrOf(obj["p"], name, v))


Next ==
    \/ NewArgsP
    \/ NewSeqP
    \/ NewArgsQ
    \/ NewSeqQ
    \/ Add \/ Sub \/ Eq \/ Distance
    \/ Mul \/ Div
    \/ Magnitude \/ UnitVector \/ Repr \/ LenOf \/ GetItem \/ Iter
    \/ AsType \/ AsTuple
    \/ GetAttr
    \/ Keep

Spec == Init /\ [][Next]_vars

\* the library's calls together with a caller that assigns attributes
NextAttr ==
    \/ NewArgsP
    \/ NewSeqP
    \/ GetAttr
    \/ SetAttr

SpecAttr == Init /\ [][NextAttr]_vars

(***************************************************************************)
(* What the claims are stated in.                                          *)
(***************************************************************************)
\* the components of a point, in order
Comps(o) == IF o.z.t = "absent" THEN <<o.x, o.y>> ELSE <<o.x, o.y, o.z>>

\* every point of the state: those p and q are bound to, and the one the
\* latest call returned
Points ==
    {obj[r] : r \in {r \in Refs : obj[r] # NoObj}}
        \cup (IF call.out.kind = "Point" THEN {call.out.obj} ELSE {})

\* an integer (to Python, a bool is one), a float
IsInteger(c) == c.t \in {"int", "bool"}
IsFloat(c) == c.t = "float"

Uniform(o) ==
    /\ o.dtype \in {"int", "float"}
    /\ o.dtype = "int" <=> \A i \in DOMAIN Comps(o) : IsInteger(Comps(o)[i])
    /\ o.dtype = "float" <=> \A i \in DOMAIN Comps(o) : IsFloat(Comps(o)[i])

\* the points one more call on o returns
After(o) ==
    LET outs == {M_astype(o, "int").out, M_astype(o, "float").out,
                 M_unit_vector(o).out}
                    \cup {M_mul(o, s).out : s \in Scalars}
                    \cup {M_truediv(o, s).out : s \in Scalars}
                    \cup {M_add(o, obj[r]).out : r \in {r \in Refs : obj[r] # NoObj}}
                    \cup {M_sub(o, obj[r]).out : r \in {r \in Refs : obj[r] # NoObj}}
    IN  {out.obj : out \in {out \in outs : out.kind = "Point"}}

\* the coordinates a constructor call was given: the items of the sequence,
\* or the separate arguments
Given(c) == IF c.args[1].t = "tuple" THEN c.args[1].items ELSE c.args

NotNumber(c) == c.t \notin {"int", "float"}
Supplied(c) ==
    IF c.args[1].t = "tuple" THEN c.args[1].items
    ELSE IF c.args[Len(c.args)] # NoneV THEN c.args
    ELSE IF Len(c.args) = 3 /\ c.args[2] # NoneV THEN SubSeq(c.args, 1, 2)
    ELSE SubSeq(c.args, 1, 1)

\* C2: a constructor given a coordinate that is not an integer or a float
\* (a string, a boolean, None), in any position and either form, raises
\* the error of non-numeric coordinates (RuntimeError) and binds nothing.
C2_NonNumberRejected ==
    call.op = "new"
        /\ (\E i \in DOMAIN Supplied(call) : NotNumber(Supplied(call)[i])) =>
            /\ call.out = Raise("RuntimeError")
            /\ obj[call.a] = NoObj

\* C3: p == q is true exactly when the dtypes are equal and every component
\* compares equal, for two points of one class; for a Point2D and a
\* Point3D it is never true.
C3_EqualityIff ==
    call.op = "eq" =>
        LET a == obj[call.a]
            b == obj[call.b]
        IN  IF a.cls = b.cls
            THEN call.out =
                    OutBool(/\ a.dtype = b.dtype
                            /\ \A i \in DOMAIN Comps(a) :
                                    PyEq(Comps(a)[i], Comps(b)[i]))
            ELSE call.out # OutBool(TRUE)

\* the number of r is the number of a plus sign times the number of b
IsSum(r, a, sign, b) == r.n * a.d * b.d = (a.n * b.d + sign * b.n * a.d) * r.d
IsProduct(r, a, b) == r.n * a.d * b.d = a.n * b.n * r.d

\* C4: for p and q of one class p + q and p - q, and for a scalar s p * s,
\* are new points whose components are the sums, differences and products;
\* the result is int-typed, of integers, when both operands are, and
\* float-typed otherwise; p - p is the zero vector of p's dtype.
C4_Arithmetic ==
    /\ call.op \in {"add", "sub"} /\ obj[call.a].cls = obj[call.b].cls =>
        LET a == obj[call.a]
            b == obj[call.b]
            r == call.out.obj
            sign == IF call.op = "add" THEN 1 ELSE -1
        IN  /\ call.out.kind = "Point"
            /\ r.cls = a.cls
            /\ \A i \in DOMAIN Comps(a) :
                    /\ IsSum(Comps(r)[i], Comps(a)[i], sign, Comps(b)[i])
                    /\ Comps(r)[i].t = r.dtype
            /\ r.dtype = IF a.dtype = "int" /\ b.dtype = "int" THEN "int" ELSE "float"
            /\ call.op = "sub" /\ call.a = call.b =>
                    /\ r.dtype = a.dtype
                    /\ \A i \in DOMAIN Comps(r) : Comps(r)[i].n = 0
    /\ call.op = "mul" =>
        LET a == obj[call.a]
            s == call.args[1]
            r == call.out.obj
        IN  /\ call.out.kind = "Point"
            /\ r.cls = a.cls
            /\ \A i \in DOMAIN Comps(a) :
                    /\ IsProduct(Comps(r)[i], Comps(a)[i], s)
                    /\ Comps(r)[i].t = r.dtype
            /\ r.dtype = IF a.dtype = "int" /\ s.t = "int" THEN "int" ELSE "float"

\* an int-typed Point3D times a float scalar: a float-typed point
C4_Witness ==
    /\ call.op = "mul"
    /\ obj["p"].cls = "Point3D" /\ obj["p"].dtype = "int"
    /\ obj["p"].x = IntV(1)
    /\ call.args[1] = FloatV(1, 2)
    /\ call.out.kind = "Point" /\ call.out.obj.dtype = "float"
    /\ call.out.obj.x = FloatV(1, 2)

\* C5: p / s, s not zero, is a float-typed point of floats, each the true
\* quotient of the component by s, also when p and s are integers and s
\* divides every component.
C5_DivisionIsFloat ==
    call.op = "div" /\ call.args[1].n # 0 =>
        LET a == obj[call.a]
            s == call.args[1]
            r == call.out.obj
        IN  /\ call.out.kind = "Point"
            /\ r.cls = a.cls
            /\ r.dtype = "float"
            /\ \A i \in DOMAIN Comps(a) :
                    /\ Comps(r)[i].t = "float"
                    /\ IsProduct(Comps(a)[i], Comps(r)[i], s)

\* an int-typed point divided by the integer 1, which divides its components
C5_Witness ==
    /\ call.op = "div"
    /\ obj["p"].dtype = "int" /\ obj["p"].x = IntV(1)
    /\ call.args[1] = IntV(1)
    /\ call.out.kind = "Point" /\ call.out.obj.dtype = "float"
    /\ call.out.obj.x = FloatV(1, 1)

Producing == {"add", "sub", "mul", "div", "unit_vector", "astype"}

\* C6: after any sequence of calls, each succeeding or failing, every point
\* that was receiver or argument has the x, y, (z) and dtype it had when its
\* constructor returned; a call that produces a point returns a new one.
C6_OperandsUnchanged ==
    /\ \A r \in Refs : obj[r] = born[r]
    /\ call.op \in Producing /\ call.out.kind # "raise" => call.out.kind = "Point"

\* p - q has returned a point, and p and q are as their constructors left them
C6_Witness ==
    /\ call.op = "sub" /\ call.a = "p" /\ call.b = "q"
    /\ obj["q"] # NoObj
    /\ call.out.kind = "Point"
    /\ obj["p"] = born["p"] /\ obj["q"] = born["q"]

\* C7: an assignment to x, y or z of a point is rejected and leaves the
\* point as it was, its components of one representation that agrees with
\* its dtype.
C7_ReadOnly ==
    call.op = "setattr" /\ call.name \in {"x", "y", "z"} =>
        /\ call.out.kind = "raise"
        /\ obj[call.a] = born[call.a]
        /\ Uniform(obj[call.a])

\* C8: Point2D given one number and Point3D given two numbers as separate
\* arguments raise the error of a malformed call (TypeError), which is not
\* the error a non-numeric coordinate raises, and bind nothing.
C8_MissingComponent ==
    call.op = "new"
        /\ call.args[1].t \in {"int", "float"}
        /\ call.args[Len(call.args)] = NoneV
        /\ (call.name = "Point3D" => call.args[2].t \in {"int", "float"}) =>
            /\ call.out = Raise("TypeError")
            /\ call.out.text # Point2D_set_types(Raw("Point2D", StrV, IntV(0), NoAttr)).err
            /\ call.out.text # Point3D_set_types(Raw("Point3D", StrV, IntV(0), IntV(0))).err
            /\ obj[call.a] = NoObj

\* Point3D(1, 0) has raised TypeError
C8_Witness ==
    /\ call.op = "new" /\ call.name = "Point3D"
    /\ call.args = <<IntV(1), IntV(0), NoneV>>
    /\ call.out = Raise("TypeError")
    /\ obj["p"] = NoObj

Arity(o) == IF o.cls = "Point2D" THEN 2 ELSE 3

\* C9: p[k] is the k-th component for k in 0 .. len(p) - 1 and IndexError
\* for every other integer k, the negative ones included; len(p) is 2 for a
\* Point2D and 3 for a Point3D.
C9_Indexing ==
    /\ call.op = "getitem" =>
        LET o == obj[call.a]
            k == call.args[1].n
        IN  IF 0 <= k /\ k < Arity(o)
            THEN call.out = OutVal(Comps(o)[k + 1])
            ELSE call.out = Raise("IndexError")
    /\ call.op = "len" => call.out = OutVal(IntV(Arity(obj[call.a])))

\* p[-1] has raised IndexError
C9_Witness ==
    /\ call.op = "getitem"
    /\ call.args[1] = IntV(-1)
    /\ call.out = Raise("IndexError")

\* the integer k is the nearest to the number of c, and even when two are
Nearest(k, c) ==
    LET twice == 2 * (k * c.d - c.n)
    IN  /\ -c.d <= twice /\ twice <= c.d
        /\ (twice = c.d \/ twice = -c.d) => k % 2 = 0

RoundsTo(r, o) ==
    /\ r.kind = "Point"
    /\ r.obj.cls = o.cls
    /\ r.obj.dtype = "int"
    /\ \A i \in DOMAIN Comps(o) :
            /\ Comps(r.obj)[i].t = "int"
            /\ Nearest(Comps(r.obj)[i].n, Comps(o)[i])

====
